---- MODULE Spec2Model ----
(***************************************************************************)
(* Process / pty / stream supervision of ollama-gpt.                       *)
(*                                                                         *)
(*   llama_manager.py       QProcess roles (compile, serve, list, pull)    *)
(*                          and the pty bridge of "ollama run" (the POSIX  *)
(*                          branch, os.name != 'nt')                       *)
(*   llama_request_http.py  PullThread / GenerateThread stream workers     *)
(*                                                                         *)
(* SpecProc, SpecPty and SpecHttp are the three independent layers; the    *)
(* close handler of each file runs over all the state it touches.          *)
(* SpecHttpFair is SpecHttp with the progress the code guarantees.         *)
(* SpecFilter applies strip_output to texts; SpecList delivers the output  *)
(* of "ollama list" to onModelListOutput in pieces.                        *)
(***************************************************************************)
EXTENDS Integers, Sequences, FiniteSets, TLC

\* ------------------------------------------------------------------ bounds
MaxConn == 2
MaxOpens == 2
MaxSends == 2
MaxLines == 2
MaxText == 4
MaxListLines == 2

\* ------------------------------------------------------- supervised roles
Roles == {"Compile", "Serve", "ListModels", "PullOneShot"}

\* Roles whose QProcess.finished signal is ever connected to a slot.
CallbackRoles == {"Compile", "Serve"}

\* The order closeEvent walks the QProcess objects in.
CloseOrder == <<"Compile", "Serve", "ListModels", "PullOneShot">>

VARIABLES
    qstate,         \* role -> QProcess.state(): NotRunning / Starting / Running
    live,           \* role -> number of OS children alive for the role
    ignTerm,        \* role -> the role's child ignores SIGTERM
    conns,          \* role -> number of finished->slot connections
    lastExitCalls,  \* role -> slot invocations made by the latest step for the
                    \* role's exit, -1 when the role did not exit in that step
    outcome,        \* what the latest handler reported
    closed,         \* closeEvent has run
    modelPtyProcess,\* 0 (None) or the id of the Popen child
    modelMaster,    \* 0 (None) or a descriptor number
    modelNotifier,  \* the descriptor the notifier watches (fd 0: None) and its enabled flag
    ptyChild,       \* child id -> "none" / "alive" / "aliveIgn" / "exited"
    fdTable,        \* descriptor number -> 0 (closed) or the child whose master it is
    writes,         \* os.write calls performed by sendCommand
    ptyBuf,         \* child id -> the text it wrote to its pty that is not read yet
    pullThread,     \* self.pullThread: the PullThread object (pc "none": None)
    generateThread, \* self.generateThread: the GenerateThread object
    orphans,        \* kind -> workers still running that no attribute refers to
    guiPc,          \* where the GUI thread is: idle, or blocked in a QThread.wait()
    menus,          \* the body lines the server may send to each kind of request
    procOutput,     \* the text a child process writes to its stdout in its life
    unread,         \* the part of procOutput no readyRead slot has read yet
    modelComboBox,  \* the items of modelComboBox (pullModelComboBox is filled alike)
    serverLog       \* the text the latest output slot appended to the log

procVars == <<qstate, live, ignTerm, conns, lastExitCalls>>
ptyVars == <<modelPtyProcess, modelMaster, modelNotifier, ptyChild, fdTable, writes,
            ptyBuf>>
httpVars == <<pullThread, generateThread, orphans, guiPc, menus>>
textVars == <<procOutput, unread, modelComboBox, serverLog>>
vars == <<qstate, live, ignTerm, conns, lastExitCalls, outcome, closed,
          modelPtyProcess, modelMaster, modelNotifier, ptyChild, fdTable, writes,
          ptyBuf, pullThread, generateThread, orphans, guiPc, menus,
          procOutput, unread, modelComboBox, serverLog>>

ChildIds == 1..MaxOpens
FdNums == 1..MaxOpens

\* A thread attribute holding None.
NoLine == [k |-> "none", c |-> 0, t |-> 0, s |-> ""]
NoThread == [pc |-> "none", running |-> FALSE, line |-> NoLine, nread |-> 0,
             evs |-> <<>>, end |-> ""]

Kinds == {"Pull", "Generate"}

\* The QProcess objects right after __init__.
InitProcIdle ==
    /\ qstate = [r \in Roles |-> "NotRunning"]
    /\ live = [r \in Roles |-> 0]
    /\ ignTerm = [r \in Roles |-> FALSE]
    /\ conns = [r \in Roles |-> 0]

\* No child has written anything; the combo boxes are created empty.
InitTextIdle ==
    /\ procOutput = <<>>
    /\ unread = <<>>
    /\ modelComboBox = <<>>
    /\ serverLog = <<>>

InitBase ==
    /\ lastExitCalls = [r \in Roles |-> -1]
    /\ outcome = [op |-> "init", res |-> "none", pre |-> "none"]
    /\ closed = FALSE
    /\ modelPtyProcess = 0
    /\ modelMaster = 0
    /\ modelNotifier = [fd |-> 0, enabled |-> FALSE]
    /\ ptyChild = [c \in ChildIds |-> "none"]
    /\ fdTable = [f \in FdNums |-> 0]
    /\ writes = <<>>
    /\ ptyBuf = [c \in ChildIds |-> <<>>]
    /\ pullThread = NoThread
    /\ generateThread = NoThread
    /\ orphans = [k \in Kinds |-> 0]
    /\ guiPc = "idle"

\* The process and pty layers issue no HTTP request.
Init ==
    /\ InitProcIdle
    /\ InitBase
    /\ InitTextIdle
    /\ menus = [Pull |-> {}, Generate |-> {}]

\* ---------------------------------------------------------------- QProcess
\* The process state of all roles as one value, so that a handler that makes
\* several QProcess calls in a row can be written as a composition.
ProcSt == [q |-> qstate, live |-> live, ign |-> ignTerm]

\* A start that forks whatever the state of the QProcess object.
QProcessStartAlways(ps, r, ign) ==
    [q |-> [ps.q EXCEPT ![r] = "Starting"],
     live |-> [ps.live EXCEPT ![r] = @ + 1],
     ign |-> [ps.ign EXCEPT ![r] = ign]]

\* QProcess.start(): a QProcess object that is not NotRunning refuses to
\* start again (Qt warns and returns); otherwise it forks one child.
QProcessStart(ps, r, ign) ==
    IF ps.q[r] # "NotRunning"
    THEN ps
    ELSE [q |-> [ps.q EXCEPT ![r] = "Starting"],
          live |-> [ps.live EXCEPT ![r] = @ + 1],
          ign |-> [ps.ign EXCEPT ![r] = ign]]

\* QProcess.waitForStarted(3000): res is what the OS does within the wait.
WaitForStarted(ps, r, res) ==
    IF ps.q[r] = "Starting"
    THEN CASE res = "ok" -> [ps |-> [ps EXCEPT !.q[r] = "Running"], ret |-> TRUE]
           [] res = "fail" -> [ps |-> [ps EXCEPT !.q[r] = "NotRunning", !.live[r] = @ - 1,
                                                 !.ign[r] = FALSE],
                               ret |-> FALSE]
           [] OTHER -> [ps |-> ps, ret |-> FALSE]
    ELSE [ps |-> ps, ret |-> ps.q[r] = "Running"]

StartResults == {"ok", "fail", "timeout"}

NoExit == [r \in Roles |-> -1]

\* The inputs of a start that matter: whether the new child ignores SIGTERM is
\* only drawn when the call forks one.
IgnChoices(willFork) == IF willFork THEN BOOLEAN ELSE {FALSE}

\* compileSource: start make, then connect finished to compileFinished.
CompileSource ==
    /\ ~closed
    /\ conns["Compile"] < MaxConn
    /\ \E ign \in IgnChoices(qstate["Compile"] = "NotRunning") :
        LET ps == QProcessStart(ProcSt, "Compile", ign) IN
        /\ qstate' = ps.q
        /\ live' = ps.live
        /\ ignTerm' = ps.ign
        /\ conns' = [conns EXCEPT !["Compile"] = @ + 1]
        /\ outcome' = [op |-> "compileSource", res |-> "started", pre |-> qstate["Compile"]]
    /\ lastExitCalls' = NoExit
    /\ UNCHANGED closed
    /\ UNCHANGED ptyVars
    /\ UNCHANGED httpVars
    /\ UNCHANGED textVars

\* A startServer that starts the process without looking for the file.
StartServerNoCheck(ps, pathExists, ign, res) ==
    LET w == WaitForStarted(QProcessStart(ps, "Serve", ign), "Serve", res) IN
    IF ~w.ret
    THEN [ps |-> w.ps, connected |-> FALSE, log |-> "StartFailed"]
    ELSE [ps |-> w.ps, connected |-> TRUE, log |-> "none"]

\* startServer as a function of the state: the process state after it, whether
\* it connected finished to serverFinished, and what it logged.
StartServer(ps, pathExists, ign, res) ==
    IF ~pathExists
    THEN [ps |-> ps, connected |-> FALSE, log |-> "NotFound"]
    ELSE LET w == WaitForStarted(QProcessStart(ps, "Serve", ign), "Serve", res) IN
         IF ~w.ret
         THEN [ps |-> w.ps, connected |-> FALSE, log |-> "StartFailed"]
         ELSE [ps |-> w.ps, connected |-> TRUE, log |-> "none"]

\* listModels of llama_manager.py: ollama list through modelListProcess.
ListModels(ps, pathExists, ign) ==
    IF ~pathExists
    THEN [ps |-> ps, log |-> "NotFound"]
    ELSE [ps |-> QProcessStart(ps, "ListModels", ign), log |-> "none"]

\* startServerAndListModels: startServer() immediately followed by listModels().
StartServerAndListModels ==
    /\ ~closed
    /\ conns["Serve"] < MaxConn
    /\ \E pathExists \in BOOLEAN :
       \E ign \in IgnChoices(pathExists /\ qstate["Serve"] = "NotRunning"),
          ignL \in IgnChoices(pathExists /\ qstate["ListModels"] = "NotRunning"),
          res \in IF pathExists /\ qstate["Serve"] # "Running" THEN StartResults ELSE {"ok"} :
        LET s == StartServer(ProcSt, pathExists, ign, res)
            l == ListModels(s.ps, pathExists, ignL) IN
        /\ qstate' = l.ps.q
        /\ live' = l.ps.live
        /\ ignTerm' = l.ps.ign
        /\ conns' = [conns EXCEPT !["Serve"] = IF s.connected THEN @ + 1 ELSE @]
        /\ outcome' = [op |-> "startServerAndListModels",
                       res |-> <<s.log, l.log>>,
                       pre |-> <<qstate["Serve"], s.ps.q["Serve"]>>,
                       path |-> pathExists]
    /\ lastExitCalls' = NoExit
    /\ UNCHANGED closed
    /\ UNCHANGED ptyVars
    /\ UNCHANGED httpVars
    /\ UNCHANGED textVars

\* pullSelectedModel of llama_manager.py: ollama pull through pullProcess.
PullSelectedModelProc ==
    /\ ~closed
    /\ \E selected \in BOOLEAN, pathExists \in BOOLEAN :
       \E ign \in IgnChoices(selected /\ pathExists /\ qstate["PullOneShot"] = "NotRunning") :
        LET ps == IF selected /\ pathExists
                  THEN QProcessStart(ProcSt, "PullOneShot", ign) ELSE ProcSt IN
        /\ qstate' = ps.q
        /\ live' = ps.live
        /\ ignTerm' = ps.ign
        /\ (~selected => pathExists)
        /\ outcome' = [op |-> "pullSelectedModel",
                       res |-> IF ~selected THEN "NoModel"
                               ELSE IF ~pathExists THEN "NotFound" ELSE "none",
                       pre |-> qstate["PullOneShot"],
                       path |-> pathExists]
    /\ lastExitCalls' = NoExit
    /\ UNCHANGED <<conns, closed>>
    /\ UNCHANGED ptyVars
    /\ UNCHANGED httpVars
    /\ UNCHANGED textVars

\* The event loop learns the fate of a child forked by an asynchronous start():
\* started (Running) or FailedToStart (back to NotRunning, no finished signal).
ProcStartup(r) ==
    /\ ~closed
    /\ qstate[r] = "Starting"
    /\ \E ok \in BOOLEAN :
        IF ok
        THEN /\ qstate' = [qstate EXCEPT ![r] = "Running"]
             /\ UNCHANGED <<live, ignTerm>>
        ELSE /\ qstate' = [qstate EXCEPT ![r] = "NotRunning"]
             /\ live' = [live EXCEPT ![r] = @ - 1]
             /\ ignTerm' = [ignTerm EXCEPT ![r] = FALSE]
    /\ outcome' = [op |-> "procStartup", res |-> r, pre |-> "Starting"]
    /\ lastExitCalls' = NoExit
    /\ UNCHANGED <<conns, closed>>
    /\ UNCHANGED ptyVars
    /\ UNCHANGED httpVars
    /\ UNCHANGED textVars

\* A running child exits by itself: QProcess emits finished once, and every
\* connection made to it so far invokes its slot (compileFinished,
\* serverFinished).
ProcExit(r) ==
    /\ ~closed
    /\ qstate[r] = "Running"
    /\ qstate' = [qstate EXCEPT ![r] = "NotRunning"]
    /\ live' = [live EXCEPT ![r] = @ - 1]
    /\ ignTerm' = [ignTerm EXCEPT ![r] = FALSE]
    /\ lastExitCalls' = [NoExit EXCEPT ![r] = conns[r]]
    /\ outcome' = [op |-> "procExit", res |-> r, pre |-> "Running"]
    /\ UNCHANGED <<conns, closed>>
    /\ UNCHANGED ptyVars
    /\ UNCHANGED httpVars
    /\ UNCHANGED textVars

\* proc.terminate(); proc.waitForFinished(3000) on one role: SIGTERM ends a
\* child that does not ignore it (finished fires inside the wait); a child
\* that ignores it is still alive when the wait times out.
TerminateAndWait(st, r) ==
    IF st.ps.q[r] = "NotRunning"
    THEN st
    ELSE IF st.ps.ign[r]
         THEN [st EXCEPT !.ps.q[r] = "Running"]
         ELSE [ps |-> [st.ps EXCEPT !.q[r] = "NotRunning", !.live[r] = @ - 1,
                                    !.ign[r] = FALSE],
               calls |-> [st.calls EXCEPT ![r] = conns[r]]]

RECURSIVE TerminateAll(_, _)
TerminateAll(st, order) ==
    IF order = <<>> THEN st
    ELSE TerminateAll(TerminateAndWait(st, Head(order)), Tail(order))

\* The pty part of closeEvent: terminate(), wait(timeout=3), kill() when the
\* wait times out. Only the child modelPtyProcess refers to is touched.
ClosePtyChild(pc) ==
    IF modelPtyProcess # 0 /\ pc[modelPtyProcess] \in {"alive", "aliveIgn"}
    THEN [pc EXCEPT ![modelPtyProcess] = "exited"]
    ELSE pc

\* closeEvent of llama_manager.py.
CloseEvent ==
    /\ ~closed
    /\ LET st == TerminateAll([ps |-> ProcSt, calls |-> NoExit], CloseOrder) IN
        /\ qstate' = st.ps.q
        /\ live' = st.ps.live
        /\ ignTerm' = st.ps.ign
        /\ lastExitCalls' = st.calls
    /\ ptyChild' = ClosePtyChild(ptyChild)
    /\ closed' = TRUE
    /\ outcome' = [op |-> "closeEvent", res |-> "accepted", pre |-> "none"]
    /\ UNCHANGED <<conns, modelPtyProcess, modelMaster, modelNotifier, fdTable, writes,
                   ptyBuf>>
    /\ UNCHANGED httpVars
    /\ UNCHANGED textVars

NextProc ==
    \/ CompileSource
    \/ StartServerAndListModels
    \/ PullSelectedModelProc
    \/ \E r \in Roles : ProcStartup(r)
    \/ \E r \in Roles : ProcExit(r)
    \/ CloseEvent

SpecProc == Init /\ [][NextProc]_vars

\* ------------------------------------------------------------ output filter
\* A text is a sequence of characters, each a one-character string, except
\* "ESC", the single character \x1B, and "SPIN", any one of the nine spinner
\* glyphs of the second pattern.

\* [@-Z\\-_]: the characters that end a two-character escape.
FeFinal == {"A", "B", "E", "G", "I", "M", "N", "S", "]"}

\* [0-?]: CSI parameter characters.
CsiParam == {"0", "3", "7"}

\* [ -/]: CSI intermediate characters.
CsiInter == {" "}

\* [@-~]: the characters that end a CSI sequence.
CsiFinal == FeFinal \cup {"[", "a", "b", "m", "x"}

\* The index after the longest run of characters of cls that starts at i.
RECURSIVE SkipClass(_, _, _)
SkipClass(t, i, cls) ==
    IF i <= Len(t) /\ t[i] \in cls THEN SkipClass(t, i + 1, cls) ELSE i

\* ansi_escape matched at index i: the index after the match, 0 for no match.
\* The three classes of the CSI branch are disjoint, so the greedy runs are
\* the only way the branch can match.
AnsiMatchEnd(t, i) ==
    IF t[i] # "ESC" \/ i + 1 > Len(t) THEN 0
    ELSE IF t[i + 1] \in FeFinal THEN i + 2
    ELSE IF t[i + 1] = "["
    THEN LET j == SkipClass(t, SkipClass(t, i + 2, CsiParam), CsiInter) IN
         IF j <= Len(t) /\ t[j] \in CsiFinal THEN j + 1 ELSE 0
    ELSE 0

\* ansi_escape.sub('', text) from index i on: one left-to-right scan that
\* drops every match and resumes after it.
RECURSIVE AnsiSub(_, _)
AnsiSub(t, i) ==
    IF i > Len(t) THEN <<>>
    ELSE IF AnsiMatchEnd(t, i) # 0 THEN AnsiSub(t, AnsiMatchEnd(t, i))
    ELSE <<t[i]>> \o AnsiSub(t, i + 1)

NotSpinner(c) == c # "SPIN"

\* spinner_pattern.sub('', text).
SpinnerSub(t) == SelectSeq(t, NotSpinner)

\* strip_output: the escape pass, then the spinner pass, each run once.
strip_output(t) == SpinnerSub(AnsiSub(t, 1))

\* --------------------------------------------------------------- pty bridge
PtyAlive == {"alive", "aliveIgn"}

FreeFds == {f \in FdNums : fdTable[f] = 0}

\* os.openpty() hands out the lowest descriptor number that is not open.
LowestFree == CHOOSE f \in FreeFds : \A g \in FreeFds : f <= g

FreshChildren == {c \in ChildIds : ptyChild[c] = "none"}

NextChild == CHOOSE c \in FreshChildren : \A d \in FreshChildren : c <= d

\* The two descriptors os.openpty() returns.
PtyPair == {"master", "slave"}

\* The value of fdTable for a descriptor that is open with no child behind it.
NoChild == -1

ClosedAfterSpawnKeepsMaster(spawnOk) == {"slave"}

\* The descriptors of the pair that runSelectedModel closes before it
\* returns: the slave copy after Popen, both of them when Popen raised.
ClosedAfterSpawn(spawnOk) == IF spawnOk THEN {"slave"} ELSE {"slave", "master"}

\* runSelectedModel of llama_manager.py: allocate a pty pair, spawn
\* "ollama run <model>" on the slave, close the slave copy, watch the master.
\* Nothing in it looks at a session that is already open.
RunSelectedModel ==
    /\ ~closed
    /\ FreshChildren # {}
    /\ \E selected \in BOOLEAN, pathExists \in BOOLEAN, allocOk \in BOOLEAN,
          spawnOk \in BOOLEAN, ign \in BOOLEAN :
        LET pre == IF modelPtyProcess # 0 /\ ptyChild[modelPtyProcess] \in PtyAlive
                   THEN "open" ELSE "closed"
            held == PtyPair \ ClosedAfterSpawn(spawnOk) IN
        IF ~selected \/ ~pathExists \/ ~allocOk
        THEN /\ ~spawnOk /\ ~ign
             /\ (~selected => pathExists /\ allocOk)
             /\ (~pathExists => allocOk)
             /\ outcome' = [op |-> "runSelectedModel",
                            res |-> IF ~selected THEN "NoModel"
                                    ELSE IF ~pathExists THEN "NotFound" ELSE "AllocFailed",
                            pre |-> pre, held |-> {}]
             /\ UNCHANGED ptyVars
        ELSE IF ~spawnOk
        THEN \* Popen raised: both descriptors are closed again, but
             \* self.modelMaster keeps the number of the closed master.
             /\ ~ign
             /\ modelMaster' = LowestFree
             /\ fdTable' = IF "master" \in held
                           THEN [fdTable EXCEPT ![LowestFree] = NoChild] ELSE fdTable
             /\ outcome' = [op |-> "runSelectedModel", res |-> "SpawnFailed", pre |-> pre,
                            held |-> held]
             /\ UNCHANGED <<modelPtyProcess, modelNotifier, ptyChild, writes, ptyBuf>>
        ELSE /\ modelMaster' = LowestFree
             /\ fdTable' = [fdTable EXCEPT ![LowestFree] = NextChild]
             /\ ptyChild' = [ptyChild EXCEPT ![NextChild] = IF ign THEN "aliveIgn" ELSE "alive"]
             /\ modelPtyProcess' = NextChild
             /\ modelNotifier' = [fd |-> LowestFree, enabled |-> TRUE]
             /\ outcome' = [op |-> "runSelectedModel", res |-> "Opened", pre |-> pre,
                            held |-> held]
             /\ UNCHANGED <<writes, ptyBuf>>
    /\ lastExitCalls' = NoExit
    /\ UNCHANGED <<qstate, live, ignTerm, conns, closed>>
    /\ UNCHANGED httpVars
    /\ UNCHANGED textVars

\* The guard of sendCommand that only tests for a process object.
PtyNotRunningNoPoll == modelPtyProcess = 0

\* The guard of sendCommand: no process object, or poll() reports an exit.
PtyNotRunning == modelPtyProcess = 0 \/ ptyChild[modelPtyProcess] \notin PtyAlive

\* sendCommand of llama_manager.py: os.write(self.modelMaster, cmd + "\n").
SendCommand ==
    /\ ~closed
    /\ Len(writes) < MaxSends
    /\ \E cmdEmpty \in BOOLEAN, ioOk \in BOOLEAN :
        LET pre == IF modelPtyProcess = 0 THEN "None"
                   ELSE IF ptyChild[modelPtyProcess] \in PtyAlive THEN "alive" ELSE "exited" IN
        IF cmdEmpty
        THEN /\ ioOk
             /\ outcome' = [op |-> "sendCommand", res |-> "EmptyCmd", pre |-> pre]
             /\ UNCHANGED writes
        ELSE IF PtyNotRunning
        THEN /\ ioOk
             /\ outcome' = [op |-> "sendCommand", res |-> "NotRunning", pre |-> pre]
             /\ UNCHANGED writes
        ELSE IF fdTable[modelMaster] = 0 \/ ~ioOk
        THEN \* os.write raised (EBADF on a closed number, or an I/O error)
             /\ (fdTable[modelMaster] = 0 => ioOk)
             /\ outcome' = [op |-> "sendCommand", res |-> "WriteFailed", pre |-> pre]
             /\ UNCHANGED writes
        ELSE /\ writes' = Append(writes, [fd |-> modelMaster,
                                          target |-> fdTable[modelMaster],
                                          checked |-> modelPtyProcess])
             /\ outcome' = [op |-> "sendCommand", res |-> "Sent", pre |-> pre]
    /\ lastExitCalls' = NoExit
    /\ UNCHANGED <<qstate, live, ignTerm, conns, closed>>
    /\ UNCHANGED httpVars
    /\ UNCHANGED <<modelPtyProcess, modelMaster, modelNotifier, ptyChild, fdTable, ptyBuf>>
    /\ UNCHANGED textVars

\* The interactive child ends by itself (the user typed /bye, or it crashed).
PtyChildExit(c) ==
    /\ ~closed
    /\ ptyChild[c] \in PtyAlive
    /\ ptyChild' = [ptyChild EXCEPT ![c] = "exited"]
    /\ outcome' = [op |-> "ptyChildExit", res |-> c, pre |-> "alive"]
    /\ lastExitCalls' = NoExit
    /\ UNCHANGED <<qstate, live, ignTerm, conns, closed>>
    /\ UNCHANGED httpVars
    /\ UNCHANGED <<modelPtyProcess, modelMaster, modelNotifier, fdTable, writes, ptyBuf>>
    /\ UNCHANGED textVars

\* What "ollama run" may write in one piece: an answer with a spinner glyph
\* in it, or a spinner frame made of a colour sequence and a glyph only.
PtyChunks == {<<"a", "SPIN">>, <<"ESC", "[", "0", "m", "SPIN">>}

\* The interactive child writes to its terminal.
PtyChildWrite(c) ==
    /\ ~closed
    /\ ptyChild[c] \in PtyAlive
    /\ ptyBuf[c] = <<>>
    /\ \E data \in PtyChunks : ptyBuf' = [ptyBuf EXCEPT ![c] = data]
    /\ outcome' = [op |-> "ptyChildWrite", res |-> c, pre |-> "alive"]
    /\ lastExitCalls' = NoExit
    /\ UNCHANGED <<qstate, live, ignTerm, conns, closed>>
    /\ UNCHANGED httpVars
    /\ UNCHANGED textVars
    /\ UNCHANGED <<modelPtyProcess, modelMaster, modelNotifier, ptyChild, fdTable, writes>>

\* The descriptor the notifier watches is readable: text is buffered, or the
\* child has exited and the slave side is closed.
NotifierReady ==
    /\ modelNotifier.fd # 0
    /\ modelNotifier.enabled
    /\ fdTable[modelNotifier.fd] # 0
    /\ \/ ptyBuf[fdTable[modelNotifier.fd]] # <<>>
       \/ ptyChild[fdTable[modelNotifier.fd]] = "exited"

\* What os.read on a master whose slave side is closed and drained does:
\* it returns no bytes on some systems and raises EIO on others.
HangupReads == {"zero", "eio"}

\* onModelPtyOutput: the slot of the notifier. It reads self.modelMaster,
\* filters the text and inserts it; when the filtered text is empty it
\* reports the end of the output unless poll() says the child is alive.
OnModelPtyOutput ==
    /\ ~closed
    /\ NotifierReady
    /\ LET c == fdTable[modelMaster]
           polled == IF modelPtyProcess # 0 /\ ptyChild[modelPtyProcess] \in PtyAlive
                     THEN "alive" ELSE "exited" IN
       IF c = 0
       THEN \* os.read raised EBADF: self.modelMaster is a closed number
            /\ outcome' = [op |-> "onModelPtyOutput", res |-> "PtyError",
                           pre |-> [n |-> 0, child |-> polled]]
            /\ UNCHANGED <<ptyBuf, modelNotifier>>
       ELSE /\ ptyBuf[c] # <<>> \/ ptyChild[c] = "exited"
            /\ \E hangup \in HangupReads :
                LET data == ptyBuf[c]
                    output == strip_output(data) IN
                /\ (data # <<>> => hangup = "zero")
                /\ ptyBuf' = [ptyBuf EXCEPT ![c] = <<>>]
                /\ IF data = <<>> /\ hangup = "eio"
                   THEN /\ outcome' = [op |-> "onModelPtyOutput", res |-> "PtyError",
                                       pre |-> [n |-> 0, child |-> polled]]
                        /\ UNCHANGED modelNotifier
                   ELSE IF output # <<>>
                   THEN /\ outcome' = [op |-> "onModelPtyOutput", res |-> "Inserted",
                                       pre |-> [n |-> Len(data), child |-> polled]]
                        /\ UNCHANGED modelNotifier
                   ELSE IF polled = "alive"
                   THEN /\ outcome' = [op |-> "onModelPtyOutput", res |-> "Nothing",
                                       pre |-> [n |-> Len(data), child |-> polled]]
                        /\ UNCHANGED modelNotifier
                   ELSE /\ outcome' = [op |-> "onModelPtyOutput", res |-> "End",
                                       pre |-> [n |-> Len(data), child |-> polled]]
                        /\ modelNotifier' = [modelNotifier EXCEPT !.enabled = FALSE]
    /\ lastExitCalls' = NoExit
    /\ UNCHANGED <<qstate, live, ignTerm, conns, closed>>
    /\ UNCHANGED httpVars
    /\ UNCHANGED textVars
    /\ UNCHANGED <<modelPtyProcess, modelMaster, ptyChild, fdTable, writes>>

NextPty ==
    \/ RunSelectedModel
    \/ SendCommand
    \/ \E c \in ChildIds : PtyChildExit(c)
    \/ \E c \in ChildIds : PtyChildWrite(c)
    \/ OnModelPtyOutput
    \/ CloseEvent

SpecPty == Init /\ [][NextPty]_vars

\* ------------------------------------------------------------ stream workers
Line(k, c, t, s) == [k |-> k, c |-> c, t |-> t, s |-> s]

Ev(ty, a, b, s, k) == [ty |-> ty, a |-> a, b |-> b, s |-> s, k |-> k]

\* (completed, total) pairs a pull body line may carry.
ProgressPairs == {<<29, 100>>, <<50, 100>>, <<150, 100>>, <<5, 0>>}

\* Body lines of /api/pull: a blank keep-alive line, a JSON object without
\* total/completed, text that is neither JSON nor the Downloaded/Total
\* pattern, a "Downloaded: 50 ... Total: 100" text line, bytes that are not
\* UTF-8, and JSON objects with total and completed.
PullLines ==
    {Line("empty", 0, 0, ""), Line("status", 0, 0, ""), Line("text", 0, 0, ""),
     Line("pattern", 50, 100, ""), Line("badutf8", 0, 0, "")}
    \cup {Line("json", p[1], p[2], "") : p \in ProgressPairs}

\* Body lines of /api/generate: blank, JSON with a response field (possibly
\* empty), JSON without one, text that is not JSON, and bytes that are not
\* UTF-8.
GenLines ==
    {Line("empty", 0, 0, ""), Line("resp", 0, 0, ""), Line("resp", 0, 0, "a"),
     Line("resp", 0, 0, "b"), Line("noresp", 0, 0, ""), Line("text", 0, 0, ""),
     Line("badutf8", 0, 0, "")}

\* What the server may send in one run: a rich pull body, a rich generate
\* body, or one fixed line for each kind.
Scenarios ==
    {[Pull |-> PullLines, Generate |-> {}],
     [Pull |-> {}, Generate |-> GenLines],
     [Pull |-> {Line("json", 50, 100, "")}, Generate |-> {Line("resp", 0, 0, "a")}]}

\* The stream layer starts either with no child process, or with the server
\* child that one startServerAndListModels leaves running (finished connected
\* once), which may or may not ignore SIGTERM.
InitHttp ==
    /\ InitBase
    /\ InitTextIdle
    /\ menus \in Scenarios
    /\ \/ InitProcIdle
       \/ /\ qstate = [r \in Roles |-> IF r = "Serve" THEN "Running" ELSE "NotRunning"]
          /\ live = [r \in Roles |-> IF r = "Serve" THEN 1 ELSE 0]
          /\ \E ign \in BOOLEAN : ignTerm = [r \in Roles |-> r = "Serve" /\ ign]
          /\ conns = [r \in Roles |-> IF r = "Serve" THEN 1 ELSE 0]

\* (completed, total) with total <= 100 and completed <= 2 * total for which
\* the double-precision product (completed / total) * 100 lands just below
\* the integer 100 * completed / total.
RoundsBelow ==
    {<<23, 20>>, <<29, 25>>, <<46, 40>>, <<29, 50>>, <<57, 50>>, <<58, 50>>,
     <<69, 60>>, <<87, 75>>, <<92, 80>>, <<29, 100>>, <<57, 100>>, <<58, 100>>,
     <<113, 100>>, <<114, 100>>, <<115, 100>>, <<116, 100>>}

\* The exact quotient, as the percent would be with integer arithmetic.
FloorPercent(completed, total) == (100 * completed) \div total

\* int((completed / total) * 100) in Python floats, for total in 1..100.
PyPercent(completed, total) ==
    IF <<completed, total>> \in RoundsBelow
    THEN FloorPercent(completed, total) - 1
    ELSE FloorPercent(completed, total)

\* A worker whose fallback pattern accepts any text that is not JSON.
PullLineEventsLoosePattern(l) ==
    <<Ev("log", l.c, l.t, "", l.k)>>
    \o (IF l.k = "text" \/ (l.k \in {"json", "pattern"} /\ l.t > 0)
        THEN <<Ev("progress", IF l.t > 0 THEN PyPercent(l.c, l.t) ELSE 0, 0, "", ""),
               Ev("info", l.c, l.t, "", "")>>
        ELSE <<>>)

\* The signals PullThread.run emits for one non-blank body line.
PullLineEvents(l) ==
    <<Ev("log", l.c, l.t, "", l.k)>>
    \o (IF l.k \in {"json", "pattern"} /\ l.t > 0
        THEN <<Ev("progress", PyPercent(l.c, l.t), 0, "", ""), Ev("info", l.c, l.t, "", "")>>
        ELSE <<>>)

\* A worker that treats an empty response like a missing one.
GenLineEventsSkipEmpty(l) ==
    <<Ev("raw", 0, 0, l.s, l.k)>>
    \o (IF l.k = "resp" /\ l.s # "" THEN <<Ev("token", 0, 0, l.s, "")>> ELSE <<>>)

\* The signals GenerateThread.run emits for one non-blank body line.
GenLineEvents(l) ==
    <<Ev("raw", 0, 0, l.s, l.k)>>
    \o (IF l.k = "resp" THEN <<Ev("token", 0, 0, l.s, "")>> ELSE <<>>)

\* QThread.isRunning(): started and run() has not returned.
IsRunning(th) == th.pc \notin {"none", "done"}

\* A freshly constructed and started worker: _running = True, about to post.
NewThread == [pc |-> "post", running |-> TRUE, line |-> NoLine, nread |-> 0,
              evs |-> <<>>, end |-> ""]

\* stop(): clears the _running flag and nothing else.
Stop(th) == [th EXCEPT !.running = FALSE]

\* A wait() that returns without waiting.
WaitReturnsAtOnce(th) == TRUE

\* QThread.wait() returns once run() has returned.
WaitReturns(th) == ~IsRunning(th)

\* The timeout, in seconds, both workers are constructed with and pass to
\* requests.post (0 would stand for None, a read that waits for ever).
Timeout == 30

\* The diagnostic the except clause of run() emits on log_signal.
ErrorEvent(what) == Ev("log", 0, 0, what, "")

\* An except clause that also lets the terminal event of the kind through.
RaisedThenTerminal(th, what) ==
    [th EXCEPT !.pc = "done", !.end = "error", !.line = NoLine,
               !.evs = @ \o <<ErrorEvent(what), Ev("progress", 100, 0, "", ""),
                              Ev("log", 0, 0, "done", "")>>]

\* An exception inside the try block of run(): control goes to the outer
\* except clause, which emits one diagnostic, and run() returns.
Raised(th, what) ==
    [th EXCEPT !.pc = "done", !.end = "error", !.line = NoLine,
               !.evs = Append(@, ErrorEvent(what))]

\* requests.post(...) of PullThread.run, followed by progress_signal.emit(0);
\* a connect failure or timeout goes to the except clause.
PullPost ==
    /\ pullThread.pc = "post"
    /\ \E ok \in BOOLEAN :
        pullThread' =
            IF ok
            THEN [pullThread EXCEPT !.pc = "iter",
                                    !.evs = Append(@, Ev("progress", 0, 0, "", ""))]
            ELSE Raised(pullThread, "error")
    /\ UNCHANGED <<generateThread, orphans, guiPc, menus, outcome, closed>>
    /\ UNCHANGED procVars
    /\ UNCHANGED ptyVars
    /\ UNCHANGED textVars

\* iter_lines() yields the next body line.
PullReadLine ==
    /\ pullThread.pc = "iter"
    /\ pullThread.nread < MaxLines
    /\ \E l \in menus["Pull"] :
        pullThread' = [pullThread EXCEPT !.pc = "check", !.line = l, !.nread = @ + 1]
    /\ UNCHANGED <<generateThread, orphans, guiPc, menus, outcome, closed>>
    /\ UNCHANGED procVars
    /\ UNCHANGED ptyVars
    /\ UNCHANGED textVars

\* The body ends: the for loop is left and progress_signal.emit(100) runs.
PullBodyClose ==
    /\ pullThread.pc = "iter"
    /\ pullThread' = [pullThread EXCEPT !.pc = "done", !.end = "closed",
                                        !.evs = Append(@, Ev("progress", 100, 0, "", ""))]
    /\ UNCHANGED <<generateThread, orphans, guiPc, menus, outcome, closed>>
    /\ UNCHANGED procVars
    /\ UNCHANGED ptyVars
    /\ UNCHANGED textVars

\* A read of the body raises (connection reset, broken chunk): the except
\* clause logs it and run() returns.
PullReadError ==
    /\ pullThread.pc = "iter"
    /\ pullThread' = Raised(pullThread, "error")
    /\ UNCHANGED <<generateThread, orphans, guiPc, menus, outcome, closed>>
    /\ UNCHANGED procVars
    /\ UNCHANGED ptyVars
    /\ UNCHANGED textVars

\* Bytes arrive that do not complete a line: iter_lines keeps them as
\* pending and yields nothing, so the loop body, and with it the test of
\* _running, is not reached.
PullReadPartial ==
    /\ pullThread.pc = "iter"
    /\ pullThread' = [pullThread EXCEPT !.pc = "partial"]
    /\ UNCHANGED <<generateThread, orphans, guiPc, menus, outcome, closed>>
    /\ UNCHANGED procVars
    /\ UNCHANGED ptyVars
    /\ UNCHANGED textVars

\* iter_lines goes back to reading the socket; the timeout counts from here.
PullReadResume ==
    /\ pullThread.pc = "partial"
    /\ pullThread' = [pullThread EXCEPT !.pc = "iter"]
    /\ UNCHANGED <<generateThread, orphans, guiPc, menus, outcome, closed>>
    /\ UNCHANGED procVars
    /\ UNCHANGED ptyVars
    /\ UNCHANGED textVars

\* No byte arrived for Timeout seconds: the read of the body raises.
PullReadTimeout ==
    /\ pullThread.pc = "iter"
    /\ Timeout > 0
    /\ pullThread' = Raised(pullThread, "timeout")
    /\ UNCHANGED <<generateThread, orphans, guiPc, menus, outcome, closed>>
    /\ UNCHANGED procVars
    /\ UNCHANGED ptyVars
    /\ UNCHANGED textVars

\* Top of the loop body: "if not self._running: break" (which falls through
\* to progress_signal.emit(100)), then "if line:".
PullCheck ==
    /\ pullThread.pc = "check"
    /\ pullThread' =
        IF ~pullThread.running
        THEN [pullThread EXCEPT !.pc = "done", !.end = "cancelled", !.line = NoLine,
                                !.evs = Append(@, Ev("progress", 100, 0, "", ""))]
        ELSE IF pullThread.line.k = "empty"
        THEN [pullThread EXCEPT !.pc = "iter", !.line = NoLine]
        ELSE [pullThread EXCEPT !.pc = "proc"]
    /\ UNCHANGED <<generateThread, orphans, guiPc, menus, outcome, closed>>
    /\ UNCHANGED procVars
    /\ UNCHANGED ptyVars
    /\ UNCHANGED textVars

\* The rest of the loop body for a non-blank line. line.decode('utf-8') is
\* outside the inner try: bytes that are not UTF-8 raise to the outer except.
PullProcess ==
    /\ pullThread.pc = "proc"
    /\ pullThread' =
        IF pullThread.line.k = "badutf8"
        THEN Raised(pullThread, "decode")
        ELSE [pullThread EXCEPT !.pc = "iter", !.line = NoLine,
                                !.evs = @ \o PullLineEvents(pullThread.line)]
    /\ UNCHANGED <<generateThread, orphans, guiPc, menus, outcome, closed>>
    /\ UNCHANGED procVars
    /\ UNCHANGED ptyVars
    /\ UNCHANGED textVars

\* requests.post(...) of GenerateThread.run.
GenPost ==
    /\ generateThread.pc = "post"
    /\ \E ok \in BOOLEAN :
        generateThread' =
            IF ok
            THEN [generateThread EXCEPT !.pc = "iter"]
            ELSE Raised(generateThread, "error")
    /\ UNCHANGED <<pullThread, orphans, guiPc, menus, outcome, closed>>
    /\ UNCHANGED procVars
    /\ UNCHANGED ptyVars
    /\ UNCHANGED textVars

GenReadLine ==
    /\ generateThread.pc = "iter"
    /\ generateThread.nread < MaxLines
    /\ \E l \in menus["Generate"] :
        generateThread' = [generateThread EXCEPT !.pc = "check", !.line = l, !.nread = @ + 1]
    /\ UNCHANGED <<pullThread, orphans, guiPc, menus, outcome, closed>>
    /\ UNCHANGED procVars
    /\ UNCHANGED ptyVars
    /\ UNCHANGED textVars

\* The body ends: the loop is left and log_signal.emit("done") runs.
GenBodyClose ==
    /\ generateThread.pc = "iter"
    /\ generateThread' = [generateThread EXCEPT !.pc = "done", !.end = "closed",
                                                !.evs = Append(@, Ev("log", 0, 0, "done", ""))]
    /\ UNCHANGED <<pullThread, orphans, guiPc, menus, outcome, closed>>
    /\ UNCHANGED procVars
    /\ UNCHANGED ptyVars
    /\ UNCHANGED textVars

GenReadError ==
    /\ generateThread.pc = "iter"
    /\ generateThread' = Raised(generateThread, "error")
    /\ UNCHANGED <<pullThread, orphans, guiPc, menus, outcome, closed>>
    /\ UNCHANGED procVars
    /\ UNCHANGED ptyVars
    /\ UNCHANGED textVars

GenReadPartial ==
    /\ generateThread.pc = "iter"
    /\ generateThread' = [generateThread EXCEPT !.pc = "partial"]
    /\ UNCHANGED <<pullThread, orphans, guiPc, menus, outcome, closed>>
    /\ UNCHANGED procVars
    /\ UNCHANGED ptyVars
    /\ UNCHANGED textVars

GenReadResume ==
    /\ generateThread.pc = "partial"
    /\ generateThread' = [generateThread EXCEPT !.pc = "iter"]
    /\ UNCHANGED <<pullThread, orphans, guiPc, menus, outcome, closed>>
    /\ UNCHANGED procVars
    /\ UNCHANGED ptyVars
    /\ UNCHANGED textVars

GenReadTimeout ==
    /\ generateThread.pc = "iter"
    /\ Timeout > 0
    /\ generateThread' = Raised(generateThread, "timeout")
    /\ UNCHANGED <<pullThread, orphans, guiPc, menus, outcome, closed>>
    /\ UNCHANGED procVars
    /\ UNCHANGED ptyVars
    /\ UNCHANGED textVars

GenCheck ==
    /\ generateThread.pc = "check"
    /\ generateThread' =
        IF ~generateThread.running
        THEN [generateThread EXCEPT !.pc = "done", !.end = "cancelled", !.line = NoLine,
                                    !.evs = Append(@, Ev("log", 0, 0, "done", ""))]
        ELSE IF generateThread.line.k = "empty"
        THEN [generateThread EXCEPT !.pc = "iter", !.line = NoLine]
        ELSE [generateThread EXCEPT !.pc = "proc"]
    /\ UNCHANGED <<pullThread, orphans, guiPc, menus, outcome, closed>>
    /\ UNCHANGED procVars
    /\ UNCHANGED ptyVars
    /\ UNCHANGED textVars

GenProcess ==
    /\ generateThread.pc = "proc"
    /\ generateThread' =
        IF generateThread.line.k = "badutf8"
        THEN Raised(generateThread, "decode")
        ELSE [generateThread EXCEPT !.pc = "iter", !.line = NoLine,
                                    !.evs = @ \o GenLineEvents(generateThread.line)]
    /\ UNCHANGED <<pullThread, orphans, guiPc, menus, outcome, closed>>
    /\ UNCHANGED procVars
    /\ UNCHANGED ptyVars
    /\ UNCHANGED textVars

\* ------------------------------------------------- GUI handlers of the http file
\* A start handler that stops a running worker before it looks at its input.
StartStreamStopFirst(th, accepted) ==
    IF IsRunning(th)
    THEN [th |-> Stop(th), res |-> IF accepted THEN "waiting" ELSE "rejected",
          wait |-> accepted]
    ELSE IF ~accepted
    THEN [th |-> th, res |-> "rejected", wait |-> FALSE]
    ELSE [th |-> NewThread, res |-> "started", wait |-> FALSE]

\* What a start handler does to its worker up to its first wait(): return at
\* once when the input guard rejects the request; otherwise stop a running
\* worker and wait for it, or construct and start a new one.
StartStream(th, accepted) ==
    IF ~accepted
    THEN [th |-> th, res |-> "rejected", wait |-> FALSE]
    ELSE IF IsRunning(th)
    THEN [th |-> Stop(th), res |-> "waiting", wait |-> TRUE]
    ELSE [th |-> NewThread, res |-> "started", wait |-> FALSE]

\* pullSelectedModel of llama_request_http.py up to the point where it either
\* starts the new worker or blocks in pullThread.wait().
PullSelectedModel ==
    /\ ~closed
    /\ guiPc = "idle"
    /\ \E selected \in BOOLEAN :
        LET s == StartStream(pullThread, selected) IN
        /\ pullThread' = s.th
        /\ guiPc' = IF s.wait THEN "pullWait" ELSE "idle"
        /\ outcome' = [op |-> "pullSelectedModel",
                       res |-> IF s.res = "rejected" THEN "NoModel" ELSE s.res,
                       pre |-> IsRunning(pullThread)]
    /\ UNCHANGED <<generateThread, orphans, menus, closed>>
    /\ UNCHANGED procVars
    /\ UNCHANGED ptyVars
    /\ UNCHANGED textVars

\* pullThread.wait() returns: the new PullThread replaces the old one and is
\* started.
PullWaitDone ==
    /\ guiPc = "pullWait"
    /\ WaitReturns(pullThread)
    /\ orphans' = [orphans EXCEPT !["Pull"] = IF IsRunning(pullThread) THEN @ + 1 ELSE @]
    /\ pullThread' = NewThread
    /\ guiPc' = "idle"
    /\ outcome' = [op |-> "pullSelectedModel", res |-> "restarted", pre |-> TRUE]
    /\ UNCHANGED <<generateThread, menus, closed>>
    /\ UNCHANGED procVars
    /\ UNCHANGED ptyVars
    /\ UNCHANGED textVars

\* runSelectedModel of llama_request_http.py (also what sendCommand calls).
RunSelectedModelHttp ==
    /\ ~closed
    /\ guiPc = "idle"
    /\ \E selected \in BOOLEAN, prompt \in BOOLEAN :
        LET s == StartStream(generateThread, selected /\ prompt) IN
        /\ (~selected => prompt)
        /\ generateThread' = s.th
        /\ guiPc' = IF s.wait THEN "genWait" ELSE "idle"
        /\ outcome' = [op |-> "runSelectedModel",
                       res |-> IF s.res # "rejected" THEN s.res
                               ELSE IF ~selected THEN "NoModel" ELSE "NoPrompt",
                       pre |-> IsRunning(generateThread)]
    /\ UNCHANGED <<pullThread, orphans, menus, closed>>
    /\ UNCHANGED procVars
    /\ UNCHANGED ptyVars
    /\ UNCHANGED textVars

GenWaitDone ==
    /\ guiPc = "genWait"
    /\ WaitReturns(generateThread)
    /\ orphans' = [orphans EXCEPT !["Generate"] = IF IsRunning(generateThread) THEN @ + 1 ELSE @]
    /\ generateThread' = NewThread
    /\ guiPc' = "idle"
    /\ outcome' = [op |-> "runSelectedModel", res |-> "restarted", pre |-> TRUE]
    /\ UNCHANGED <<pullThread, menus, closed>>
    /\ UNCHANGED procVars
    /\ UNCHANGED ptyVars
    /\ UNCHANGED textVars

\* The QProcess objects closeEvent of llama_request_http.py walks.
HttpCloseOrder == <<"Compile", "Serve", "ListModels">>

\* closeEvent of llama_request_http.py up to its first blocking wait():
\* terminate the QProcess children, then stop the pull worker, then the
\* generate worker.
HttpCloseEvent ==
    /\ ~closed
    /\ guiPc = "idle"
    /\ LET st == TerminateAll([ps |-> ProcSt, calls |-> NoExit], HttpCloseOrder) IN
        /\ qstate' = st.ps.q
        /\ live' = st.ps.live
        /\ ignTerm' = st.ps.ign
        /\ lastExitCalls' = st.calls
    /\ IF IsRunning(pullThread)
       THEN /\ pullThread' = Stop(pullThread)
            /\ guiPc' = "closePull"
            /\ UNCHANGED <<generateThread, closed>>
       ELSE IF IsRunning(generateThread)
       THEN /\ generateThread' = Stop(generateThread)
            /\ guiPc' = "closeGen"
            /\ UNCHANGED <<pullThread, closed>>
       ELSE /\ closed' = TRUE
            /\ UNCHANGED <<pullThread, generateThread, guiPc>>
    /\ outcome' = [op |-> "closeEvent", res |-> "closing", pre |-> "none"]
    /\ UNCHANGED <<conns, orphans, menus>>
    /\ UNCHANGED ptyVars
    /\ UNCHANGED textVars

\* closeEvent continues after pullThread.wait().
CloseAfterPull ==
    /\ guiPc = "closePull"
    /\ WaitReturns(pullThread)
    /\ IF IsRunning(generateThread)
       THEN /\ generateThread' = Stop(generateThread)
            /\ guiPc' = "closeGen"
            /\ UNCHANGED closed
       ELSE /\ closed' = TRUE
            /\ guiPc' = "idle"
            /\ UNCHANGED generateThread
    /\ UNCHANGED <<pullThread, orphans, menus, outcome>>
    /\ UNCHANGED procVars
    /\ UNCHANGED ptyVars
    /\ UNCHANGED textVars

\* closeEvent continues after generateThread.wait() and accepts the event.
CloseAfterGen ==
    /\ guiPc = "closeGen"
    /\ WaitReturns(generateThread)
    /\ closed' = TRUE
    /\ guiPc' = "idle"
    /\ UNCHANGED <<pullThread, generateThread, orphans, menus, outcome>>
    /\ UNCHANGED procVars
    /\ UNCHANGED ptyVars
    /\ UNCHANGED textVars

NextHttp ==
    \/ PullSelectedModel
    \/ PullWaitDone
    \/ RunSelectedModelHttp
    \/ GenWaitDone
    \/ HttpCloseEvent
    \/ CloseAfterPull
    \/ CloseAfterGen
    \/ PullPost
    \/ PullReadLine
    \/ PullBodyClose
    \/ PullReadError
    \/ PullReadPartial
    \/ PullReadResume
    \/ PullReadTimeout
    \/ PullCheck
    \/ PullProcess
    \/ GenPost
    \/ GenReadLine
    \/ GenBodyClose
    \/ GenReadError
    \/ GenReadPartial
    \/ GenReadResume
    \/ GenReadTimeout
    \/ GenCheck
    \/ GenProcess

SpecHttp == InitHttp /\ [][NextHttp]_vars

\* What the code and its libraries guarantee to happen: a worker thread that
\* can take a step of its own takes it (requests.post returns or raises
\* within the timeout, the loop body runs, a read that stays without a byte
\* for Timeout seconds raises), and a wait() on a finished worker returns.
\* When the server sends a line, sends part of one, closes or resets the
\* connection is up to the server.
HttpFairness ==
    /\ WF_vars(PullPost) /\ WF_vars(PullCheck) /\ WF_vars(PullProcess)
    /\ WF_vars(PullReadResume) /\ WF_vars(PullReadTimeout)
    /\ WF_vars(GenPost) /\ WF_vars(GenCheck) /\ WF_vars(GenProcess)
    /\ WF_vars(GenReadResume) /\ WF_vars(GenReadTimeout)
    /\ WF_vars(PullWaitDone) /\ WF_vars(GenWaitDone)
    /\ WF_vars(CloseAfterPull) /\ WF_vars(CloseAfterGen)

SpecHttpFair == InitHttp /\ [][NextHttp]_vars /\ HttpFairness

\* Number of workers of a kind whose run() has not returned.
InFlight(k) ==
    orphans[k] + (IF IsRunning(IF k = "Pull" THEN pullThread ELSE generateThread)
                  THEN 1 ELSE 0)

IsTyped(e) == e.ty \in {"progress", "token"}

TypedEvents(th) == SelectSeq(th.evs, IsTyped)

IsProgress(e) == e.ty = "progress"

\* The percent values of the ProgressEvents a pull worker has emitted.
ProgressSeq(th) ==
    LET ps == SelectSeq(th.evs, IsProgress) IN [i \in 1..Len(ps) |-> ps[i].a]

IsLineLog(e) == e.ty = "log" /\ e.k # ""

\* The non-blank body lines a pull worker has processed, from its DEBUG log.
LoggedLines(th) == SelectSeq(th.evs, IsLineLog)

\* The diagnostics of the except clause among the signals of a worker.
IsError(e) == e.ty = "log" /\ e.k = "" /\ e.s \in {"error", "timeout", "decode"}

\* The terminal signal of a kind: progress 100 of a pull that has no
\* "Downloaded" info signal next to it, or the "done" log of a generate.
IsDone(e) == e.ty = "log" /\ e.k = "" /\ e.s = "done"

IsInfo(e) == e.ty = "info"

IsRaw(e) == e.ty = "raw"

IsToken(e) == e.ty = "token"

IsResponseLine(e) == e.ty = "raw" /\ e.k = "resp"

\* The s fields of a sequence of signals.
Texts(es) == [i \in 1..Len(es) |-> es[i].s]

\* Progress signals that no body line produced: emit(0) and emit(100).
UnpairedProgress(th) ==
    Len(SelectSeq(th.evs, IsProgress)) - Len(SelectSeq(th.evs, IsInfo))

\* The characters a filtered text is built from: ESC, the CSI introducer, a
\* CSI parameter, a CSI intermediate, an escape final, a CSI-only final, a
\* spinner glyph, and a newline, which is in none of the classes.
FilterChars == {"ESC", "[", "0", " ", "A", "m", "SPIN", "\n"}

TextsUpTo(chars, n) == UNION {[1..k -> chars] : k \in 0..n}

\* The make child is running and has written some text to its stdout.
InitFilter ==
    /\ InitBase
    /\ menus = [Pull |-> {}, Generate |-> {}]
    /\ qstate = [r \in Roles |-> IF r = "Compile" THEN "Running" ELSE "NotRunning"]
    /\ live = [r \in Roles |-> IF r = "Compile" THEN 1 ELSE 0]
    /\ ignTerm = [r \in Roles |-> FALSE]
    /\ conns = [r \in Roles |-> IF r = "Compile" THEN 1 ELSE 0]
    /\ procOutput \in TextsUpTo(FilterChars, MaxText) \ {<<>>}
    /\ unread = procOutput
    /\ modelComboBox = <<>>
    /\ serverLog = <<>>

\* onOutput: readAllStandardOutput, strip_output, append to the log.
OnOutput ==
    /\ ~closed
    /\ unread # <<>>
    /\ serverLog' = strip_output(unread)
    /\ unread' = <<>>
    /\ outcome' = [op |-> "onOutput", res |-> "appended", pre |-> "none"]
    /\ lastExitCalls' = NoExit
    /\ UNCHANGED <<qstate, live, ignTerm, conns, closed, procOutput, modelComboBox>>
    /\ UNCHANGED ptyVars
    /\ UNCHANGED httpVars

NextFilter == OnOutput

SpecFilter == InitFilter /\ [][NextFilter]_vars

\* -------------------------------------------------------------- model list
\* str.splitlines() from index i on, with "\n" as the line boundary.
RECURSIVE SplitLines(_, _)
SplitLines(t, i) ==
    IF i > Len(t) THEN <<>>
    ELSE LET j == CHOOSE k \in i..(Len(t) + 1) :
                     /\ (k <= Len(t) => t[k] = "\n")
                     /\ \A m \in i..(k - 1) : t[m] # "\n" IN
         <<SubSeq(t, i, j - 1)>> \o SplitLines(t, j + 1)

Whitespace == {" ", "\n"}

NonWhitespace == {c \in FilterChars \cup CsiFinal \cup CsiParam : c \notin Whitespace}

\* line.split()[0]: the first maximal run of non-whitespace characters of
\* the line, <<>> when line.split() is empty.
FirstToken(line) ==
    LET b == SkipClass(line, 1, Whitespace)
        e == SkipClass(line, b, NonWhitespace) IN
    SubSeq(line, b, e - 1)

NameWord == <<"N", "A", "M", "E">>

GinWord == <<"[", "G", "I", "N", "]">>

\* tokens[0] == "NAME" or tokens[0].startswith("[GIN]")
IsSkipped(tok) ==
    \/ tok = NameWord
    \/ Len(tok) >= Len(GinWord) /\ SubSeq(tok, 1, Len(GinWord)) = GinWord

IsModelName(tok) == tok # <<>> /\ ~IsSkipped(tok)

\* model_names after the loop over output.splitlines().
ParseModelNames(output) ==
    LET ls == SplitLines(output, 1)
        toks == [i \in 1..Len(ls) |-> FirstToken(ls[i])] IN
    SelectSeq(toks, IsModelName)

\* The lines "ollama list" may print: the header, two model rows, a blank
\* line, and a server log line.
ListLines ==
    {<<"N", "A", "M", "E", " ", "S">>, <<"a", " ", "3">>, <<"b", " ", "7">>,
     <<>>, <<"[", "G", "I", "N", "]", " ", "x">>}

\* Every output of at most n lines, each ended by a newline.
RECURSIVE ListOutputs(_)
ListOutputs(n) ==
    IF n = 0 THEN {<<>>}
    ELSE LET shorter == ListOutputs(n - 1) IN
         shorter \cup {l \o <<"\n">> \o o : l \in ListLines, o \in shorter}

\* "ollama list" is running and has some output to deliver; the combo boxes
\* are empty or hold the name of an earlier listing.
InitList ==
    /\ InitBase
    /\ menus = [Pull |-> {}, Generate |-> {}]
    /\ qstate = [r \in Roles |-> IF r = "ListModels" THEN "Running" ELSE "NotRunning"]
    /\ live = [r \in Roles |-> IF r = "ListModels" THEN 1 ELSE 0]
    /\ ignTerm = [r \in Roles |-> FALSE]
    /\ conns = [r \in Roles |-> 0]
    /\ procOutput \in ListOutputs(MaxListLines) \ {<<>>}
    /\ unread = procOutput
    /\ modelComboBox \in {<<>>, << <<"x">> >>}
    /\ serverLog = <<>>

\* A handler that clears the combo boxes whatever it parsed.
NewItemsAlwaysCleared(old, model_names) == model_names

\* The items of the combo boxes after a delivery: cleared and filled with
\* the parsed names when there is one, left alone otherwise.
NewItems(old, model_names) == IF model_names # <<>> THEN model_names ELSE old

\* onModelListOutput: one readyReadStandardOutput delivery. It reads what has
\* arrived so far (some non-empty prefix of what is still unread), parses
\* that text alone, and replaces the items of both combo boxes when it found
\* a name.
OnModelListOutput ==
    /\ ~closed
    /\ unread # <<>>
    /\ \E n \in 1..Len(unread) :
        LET output == strip_output(SubSeq(unread, 1, n))
            model_names == ParseModelNames(output) IN
        /\ unread' = SubSeq(unread, n + 1, Len(unread))
        /\ serverLog' = output
        /\ modelComboBox' = NewItems(modelComboBox, model_names)
        /\ outcome' = [op |-> "onModelListOutput",
                       res |-> IF model_names # <<>> THEN "Filled" ELSE "NoModelFound",
                       pre |-> modelComboBox]
    /\ lastExitCalls' = NoExit
    /\ UNCHANGED <<qstate, live, ignTerm, conns, closed, procOutput>>
    /\ UNCHANGED ptyVars
    /\ UNCHANGED httpVars

NextList == OnModelListOutput

SpecList == InitList /\ [][NextList]_vars

\* The elements of a sequence.
Range(seq) == {seq[i] : i \in 1..Len(seq)}


\* ================================================================== claims

\* C1: at most one stream session of each kind is in flight: a start issued
\* while a session of the kind is active cancels it and waits for its worker
\* to finish before the new worker is started.
C1_OneInFlight ==
    \A k \in Kinds : InFlight(k) <= 1

\* A pull was started while a pull worker was running: the old worker was
\* stopped and awaited, and the new one is now the only one in flight.
C1_Witness ==
    /\ outcome.op = "pullSelectedModel"
    /\ outcome.res = "restarted"
    /\ IsRunning(pullThread)
    /\ InFlight("Pull") = 1

\* The worker is reading the response body.
MidStream(th) == th.pc \in {"iter", "partial", "check", "proc"}

\* C2: once cancel() has cleared the flag of a worker that is reading its
\* body, the worker emits no further ProgressEvent or TokenEvent, and once it
\* has seen the cleared flag it reads no further line.
C2_NoEventAfterCancel ==
    [][/\ (MidStream(pullThread) /\ ~pullThread.running)
            => /\ TypedEvents(pullThread') = TypedEvents(pullThread)
               /\ (pullThread.pc = "check" => pullThread'.nread = pullThread.nread)
       /\ (MidStream(generateThread) /\ ~generateThread.running)
            => /\ TypedEvents(generateThread') = TypedEvents(generateThread)
               /\ (generateThread.pc = "check"
                      => generateThread'.nread = generateThread.nread)]_vars

\* C6: a pull session whose body lines all carry total > 0 and completed, and
\* whose body closes normally, has emitted as ProgressEvent percents exactly
\* floor(100 * completed / total) per line, in order, followed by one 100.
C6_ExactPercentSequence ==
    LET ls == LoggedLines(pullThread) IN
    (/\ pullThread.end = "closed"
     /\ Len(ls) >= 1
     /\ \A i \in 1..Len(ls) : ls[i].k = "json" /\ ls[i].b > 0)
    => ProgressSeq(pullThread)
         = [i \in 1..Len(ls) |-> FloorPercent(ls[i].a, ls[i].b)] \o <<100>>

\* C7: the percents of the ProgressEvents of one pull session never decrease.
C7_PercentMonotonic ==
    LET ps == ProgressSeq(pullThread) IN
    \A i \in 1..Len(ps) : \A j \in i..Len(ps) : ps[i] <= ps[j]

\* C8: every ProgressEvent of a pull session has a percent within 0..100.
C8_PercentInRange ==
    LET ps == ProgressSeq(pullThread) IN
    \A i \in 1..Len(ps) : ps[i] \in 0..100

\* C3: at most one interactive child is alive and at most one master
\* descriptor is held, whatever sequence of open, send and close was issued
\* (an open while a session is open is rejected and replaces nothing).
C3_SingleSession ==
    /\ Cardinality({c \in ChildIds : ptyChild[c] \in PtyAlive}) <= 1
    /\ Cardinality({f \in FdNums : fdTable[f] # 0}) <= 1

\* C4: every role has at most one live process, and exactly one while its
\* QProcess is not NotRunning: a start issued while the role is running (or
\* starting) does not fork a second child.
C4_OneLivePerRole ==
    \A r \in Roles :
        /\ live[r] <= 1
        /\ (qstate[r] # "NotRunning" <=> live[r] = 1)

\* A start of the Serve role was issued while its process was Running, and
\* the role still has exactly one child.
C4_Witness ==
    /\ outcome.op = "startServerAndListModels"
    /\ outcome.pre[1] = "Running"
    /\ outcome.res[1] = "none"
    /\ live["Serve"] = 1

\* C5: whenever a process of a role with an exit callback exits, the callback
\* is invoked exactly once for that exit.
C5_ExitCallbackOnce ==
    \A r \in CallbackRoles : lastExitCalls[r] \in {-1, 1}

\* C9: a send with a command, issued when no session was ever opened or when
\* the session's child has exited, reports NotRunning and writes nothing.
C9_SendNotRunning ==
    [][(/\ outcome'.op = "sendCommand"
        /\ outcome'.res # "EmptyCmd"
        /\ (modelPtyProcess = 0 \/ ptyChild[modelPtyProcess] = "exited"))
       => (outcome'.res = "NotRunning" /\ writes' = writes)]_vars

\* A session was opened, its child exited, and a send then reported NotRunning.
C9_Witness ==
    /\ outcome.op = "sendCommand"
    /\ outcome.res = "NotRunning"
    /\ outcome.pre = "exited"
    /\ modelPtyProcess # 0
    /\ fdTable[modelMaster] = modelPtyProcess

\* C10: once the close handler has completed, no supervised child is alive,
\* even one that ignores the termination signal.
C10_NoChildAfterStop ==
    closed => /\ \A r \in Roles : live[r] = 0
              /\ \A c \in ChildIds : ptyChild[c] \notin PtyAlive

\* C11: after the close handler has run, the interactive bridge has no live
\* child and holds no open master descriptor, in whatever state it was called.
C11_CloseReleasesMaster ==
    closed => /\ modelPtyProcess # 0 => ptyChild[modelPtyProcess] \notin PtyAlive
              /\ \A f \in FdNums : fdTable[f] = 0

\* C19: the output filter is idempotent: filtering a text that the filter
\* produced gives that text again, for every input built from ESC, CSI
\* parameter, intermediate and final characters, spinner glyphs and others.
C19_FilterIdempotent ==
    outcome.op = "onOutput" => strip_output(serverLog) = serverLog

\* C12: once the whole output of "ollama list" has been delivered, in one
\* piece or in several, and it names at least one model, the exposed model
\* set is the set of first tokens of its non-blank lines other than the
\* header line and the noise-marker lines.
C12_ModelSetOfWholeOutput ==
    (/\ outcome.op = "onModelListOutput"
     /\ unread = <<>>
     /\ ParseModelNames(procOutput) # <<>>)
    => Range(modelComboBox) = Range(ParseModelNames(procOutput))

\* C13: a worker whose request or body read raised has emitted exactly one
\* error diagnostic, as its last signal, no final progress 100 and no done
\* signal, and its run() has returned; nothing but a start handler of the
\* GUI puts a new worker in its place.
C13_ErrorEndsSession ==
    /\ [](\A th \in {pullThread, generateThread} :
            th.end = "error" =>
                /\ th.pc = "done"
                /\ Len(SelectSeq(th.evs, IsError)) = 1
                /\ IsError(th.evs[Len(th.evs)])
                /\ SelectSeq(th.evs, IsDone) = <<>>
                /\ UnpairedProgress(th) = IF th.evs[1].ty = "progress" THEN 1 ELSE 0)
    /\ [][/\ (pullThread.end = "error" /\ pullThread' # pullThread)
               => /\ pullThread' = NewThread
                  /\ outcome'.op = "pullSelectedModel"
                  /\ outcome'.res \in {"started", "restarted"}
          /\ (generateThread.end = "error" /\ generateThread' # generateThread)
               => /\ generateThread' = NewThread
                  /\ outcome'.op = "runSelectedModel"
                  /\ outcome'.res \in {"started", "restarted"}]_vars

\* A pull worker processed a body line and then a read of the body raised.
C13_Witness ==
    /\ pullThread.end = "error"
    /\ Len(LoggedLines(pullThread)) >= 1
    /\ pullThread.evs[Len(pullThread.evs)].s \in {"error", "timeout"}

\* C14: a body line that fails structured parsing (text that is not JSON, or
\* bytes that do not decode) never ends the session: the worker that
\* processes it goes on to read the next line.
C14_MalformedLineKeepsSession ==
    [][/\ (pullThread.pc = "proc" /\ pullThread.line.k \in {"text", "badutf8"})
           => pullThread'.pc # "done"
       /\ (generateThread.pc = "proc" /\ generateThread.line.k \in {"text", "badutf8"})
           => generateThread'.pc # "done"]_vars

\* C15: a Generate session that was not cancelled has emitted one raw event
\* for every body line it read, parseable or not, and a raw event next to
\* every TokenEvent.
C15_RawForEveryLine ==
    (generateThread.pc = "done" /\ generateThread.end # "cancelled")
    => /\ Len(SelectSeq(generateThread.evs, IsRaw)) = generateThread.nread
       /\ \A i \in 1..Len(generateThread.evs) :
             IsToken(generateThread.evs[i])
             => (i > 1 /\ generateThread.evs[i - 1]
                           = Ev("raw", 0, 0, generateThread.evs[i].s, "resp"))

\* C20: the TokenEvents of a Generate session are, in order, the response
\* values of the body lines that carry a response field, the empty string
\* included; so at a normal close their concatenation is the concatenation
\* of those values.
C20_TokenPerResponseLine ==
    Texts(SelectSeq(generateThread.evs, IsToken))
        = Texts(SelectSeq(generateThread.evs, IsResponseLine))

\* A session received a line with response "a", then one with an empty
\* response, and closed normally with both tokens emitted.
C20_Witness ==
    /\ generateThread.end = "closed"
    /\ Texts(SelectSeq(generateThread.evs, IsToken)) = <<"a", "">>

\* C16: a start of the Serve, ListModels or PullOneShot role whose command
\* path does not exist reports not-found, forks no child and leaves every
\* QProcess state as it was.
C16_MissingPathStartsNothing ==
    [][/\ (outcome'.op = "startServerAndListModels" /\ ~outcome'.path)
           => /\ outcome'.res = <<"NotFound", "NotFound">>
              /\ qstate' = qstate /\ live' = live
       /\ (outcome'.op = "pullSelectedModel" /\ outcome'.res # "NoModel"
              /\ ~outcome'.path)
           => /\ outcome'.res = "NotFound"
              /\ qstate' = qstate /\ live' = live]_vars

\* Start-server-then-list was issued with the ollama binary missing and no
\* process running: both starts reported not-found and no child exists.
C16_Witness ==
    /\ outcome.op = "startServerAndListModels"
    /\ ~outcome.path
    /\ outcome.res = <<"NotFound", "NotFound">>
    /\ outcome.pre = <<"NotRunning", "NotRunning">>
    /\ live["Serve"] = 0 /\ live["ListModels"] = 0

\* C17: a start of the Serve role issued while its process is Running is
\* reported to the caller as AlreadyRunning, not as a start that succeeded.
C17_StartWhileRunningRejected ==
    (/\ outcome.op = "startServerAndListModels"
     /\ outcome.path
     /\ outcome.pre[1] = "Running")
    => outcome.res[1] = "AlreadyRunning"

\* C18: a worker whose flag was cleared while its session was active
\* eventually terminates, and a GUI handler blocked in wait() eventually
\* returns, whatever the server does from then on.
C18_CancelTerminates ==
    /\ (IsRunning(pullThread) /\ ~pullThread.running) ~> ~IsRunning(pullThread)
    /\ (IsRunning(generateThread) /\ ~generateThread.running)
          ~> ~IsRunning(generateThread)
    /\ (guiPc # "idle") ~> (guiPc = "idle")

\* C21: a pull body line that is neither JSON nor a Downloaded/Total text
\* produces its diagnostic log signal and nothing else: no ProgressEvent and
\* no info signal.
C21_UnparsedLineOnlyLogged ==
    [][(pullThread.pc = "proc" /\ pullThread.line.k = "text"
          /\ pullThread'.pc # "proc")
       => pullThread'.evs = Append(pullThread.evs, Ev("log", 0, 0, "", "text"))]_vars

\* A pull worker has just processed such a line after the initial progress 0
\* and is back at reading the body.
C21_Witness ==
    /\ pullThread.pc = "iter"
    /\ pullThread.evs = <<Ev("progress", 0, 0, "", ""), Ev("log", 0, 0, "", "text")>>

\* C22: the end of the pty output is reported only for a read that returned
\* no bytes while the child had exited, and the report disables the
\* notifier, so that a session is reported ended once at most.
C22_EndOnlyOnEmptyReadAfterExit ==
    (outcome.op = "onModelPtyOutput" /\ outcome.res = "End")
    => /\ outcome.pre.n = 0
       /\ outcome.pre.child = "exited"
       /\ ~modelNotifier.enabled

\* C23: when runSelectedModel returns, the bridge holds no copy of the slave
\* descriptor; after a successful open it holds the master alone, and after
\* a failed allocation or a failed spawn it holds neither descriptor: the
\* number left in modelMaster by a failed spawn is a closed descriptor.
C23_NoDescriptorLeftByOpen ==
    outcome.op = "runSelectedModel"
    => /\ "slave" \notin outcome.held
       /\ (outcome.res = "Opened"
             => outcome.held = {"master"} /\ fdTable[modelMaster] = modelPtyProcess)
       /\ (outcome.res \in {"AllocFailed", "SpawnFailed"} => outcome.held = {})
       /\ (outcome.res = "SpawnFailed" => fdTable[modelMaster] = 0)

\* A spawn failed while an earlier session was open.
C23_Witness ==
    /\ outcome.op = "runSelectedModel"
    /\ outcome.res = "SpawnFailed"
    /\ outcome.pre = "open"
    /\ fdTable[modelMaster] = 0

\* C24: in startServerAndListModels the ListModels process is started only
\* when the Serve process was observed Running by startServer (the code has
\* no settle delay that blocks the caller); it is never started right after
\* a Serve start that was not confirmed.
C24_ListOnlyAfterServeRunning ==
    (outcome.op = "startServerAndListModels" /\ outcome.res[2] = "none")
    => outcome.pre[2] = "Running"

\* C25: whenever sendCommand gets as far as os.write, the descriptor it
\* writes (modelMaster, which the call leaves as it is) is the open master
\* of the child whose poll() it has just checked (modelPtyProcess), and
\* every write that was made went to that child.
C25_SendWritesCheckedSession ==
    /\ (outcome.op = "sendCommand" /\ outcome.res \in {"Sent", "WriteFailed"})
         => fdTable[modelMaster] = modelPtyProcess
    /\ \A i \in 1..Len(writes) : writes[i].target = writes[i].checked

\* C26: a pullSelectedModel without a selected model, or a runSelectedModel
\* without a selected model or with an empty prompt, starts no worker and
\* leaves both workers as they are: a running one keeps running with its
\* _running flag set, and the handler does not wait for anything.
C26_RejectedStartChangesNothing ==
    [][(/\ outcome' # outcome
        /\ outcome'.op \in {"pullSelectedModel", "runSelectedModel"}
        /\ outcome'.res \in {"NoModel", "NoPrompt"})
       => /\ pullThread' = pullThread
          /\ generateThread' = generateThread
          /\ orphans' = orphans
          /\ guiPc' = guiPc]_vars

\* An empty prompt was rejected while a generate worker was in mid-stream,
\* and the worker is still running, not cancelled.
C26_Witness ==
    /\ outcome.op = "runSelectedModel"
    /\ outcome.res = "NoPrompt"
    /\ outcome.pre = TRUE
    /\ generateThread.pc = "iter"
    /\ generateThread.running
    /\ generateThread.evs # <<>>

\* C27: a delivery of "ollama list" output in which no model name was parsed
\* (header, noise-marker and blank lines only) leaves the items of the
\* combo box as they were before it; the items differ from those before the
\* delivery only when the delivery held at least one name.
C27_NoNameKeepsModelSet ==
    outcome.op = "onModelListOutput"
    => /\ (ParseModelNames(serverLog) = <<>>
             => outcome.res = "NoModelFound" /\ modelComboBox = outcome.pre)
       /\ (modelComboBox # outcome.pre
             => outcome.res = "Filled" /\ modelComboBox = ParseModelNames(serverLog))

\* A delivery that held text but no name arrived while a model was listed.
C27_Witness ==
    /\ outcome.op = "onModelListOutput"
    /\ outcome.res = "NoModelFound"
    /\ serverLog # <<>>
    /\ outcome.pre # <<>>
    /\ modelComboBox = outcome.pre

====
